---------------------------- MODULE Spec2Model ----------------------------
(***************************************************************************)
(* A model of centerline-trace.py: the Inkscape extension that vectorizes  *)
(* a bitmap by running autotrace -centerline at several black/white        *)
(* thresholds and keeping the best scoring output.                         *)
(*                                                                         *)
(* Numbers.  Path coordinates are integers.  A path length is kept in      *)
(* fixed point, LengthUnit parts per pixel, each straight piece rounded    *)
(* down (the code uses IEEE doubles).  A weight is kept as 4000 times the  *)
(* code's weight, which makes every term an integer.  Clip rectangles are  *)
(* exact rationals <<numerator, denominator>>.                             *)
(*                                                                         *)
(* Not modelled: the pixel arithmetic of the filters (alpha compositing,   *)
(* megapixel scaling, median filter, autocontrast, equal light), the mean  *)
(* gray value and the stroke width derived from it, the --version option   *)
(* and the debug output.  The vectorizer is a black box that answers any   *)
(* of the texts in its repertoire.                                         *)
(***************************************************************************)
EXTENDS Integers, Sequences, FiniteSets, TLC

(***************************************************************************)
(* Bounds of the model.                                                    *)
(***************************************************************************)
MaxCmds == 4          \* path commands in a generated path description
MaxSel == 3           \* objects in the selection
MaxCandidates == 2    \* the --candidates option, any selection
MaxSweep == 3         \* the --candidates option, one image selected
MaxCols == 3          \* width of a generated gray image

LengthUnit == 10 * 100

(***************************************************************************)
(* Arithmetic helpers.                                                     *)
(***************************************************************************)
\* Python's int() on a quotient: truncation toward zero.
Trunc(a, b) == IF a >= 0 THEN a \div b ELSE -((-a) \div b)

RECURSIVE SqrtSearch(_, _, _)
SqrtSearch(lo, hi, n) ==
    IF lo >= hi THEN lo
    ELSE LET mid == (lo + hi + 1) \div 2
         IN IF mid * mid <= n THEN SqrtSearch(mid, hi, n)
                              ELSE SqrtSearch(lo, mid - 1, n)

\* math.sqrt, rounded down to an integer (the search stays below 2^15.5,
\* whose square still fits TLC's 32 bit integers).
ISqrt(n) == SqrtSearch(0, IF n < 46340 THEN n ELSE 46340, n)

RECURSIVE SumSeq(_)
SumSeq(s) == IF s = <<>> THEN 0 ELSE Head(s) + SumSeq(Tail(s))

(***************************************************************************)
(* Path descriptions.  A description is a sequence of tokens: a command    *)
(* letter (or the comma) or a number.  White space separates tokens.       *)
(***************************************************************************)
Cmd(c) == [cmd |-> c]
Num(v) == [num |-> v]
IsCmd(t) == "cmd" \in DOMAIN t
IsNum(t) == "num" \in DOMAIN t
IsLetter(t, c) == IsCmd(t) /\ t.cmd = c

\* str.lower() on one token.
LowerChar(c) ==
    CASE c = "M" -> "m" [] c = "L" -> "l" [] c = "C" -> "c" [] c = "Z" -> "z"
      [] OTHER -> c
lower(s) == [k \in 1..Len(s) |-> IF IsCmd(s[k]) THEN Cmd(LowerChar(s[k].cmd)) ELSE s[k]]

\* str.split('m'): the pieces between the move-to letters, the first one
\* being what precedes the first 'm'.
RECURSIVE split(_, _)
split(s, c) ==
    IF \E k \in 1..Len(s) : IsLetter(s[k], c)
    THEN LET k == CHOOSE k \in 1..Len(s) :
                     IsLetter(s[k], c) /\ \A j \in 1..(k-1) : ~IsLetter(s[j], c)
         IN <<SubSeq(s, 1, k-1)>> \o split(SubSeq(s, k+1, Len(s)), c)
    ELSE <<s>>

\* re.sub('[cl,]', ' ', p): the letters c, l and the comma become white space.
StripCurveLine(p) ==
    SelectSeq(p, LAMBDA t : ~(IsLetter(t, "c") \/ IsLetter(t, "l") \/ IsLetter(t, ",")))

\* re.subn('z\s*$', '', pp): a trailing z is removed and counted.
HasTrailingZ(pp) == Len(pp) > 0 /\ IsLetter(pp[Len(pp)], "z")
StripTrailingZ(pp) == IF HasTrailingZ(pp) THEN SubSeq(pp, 1, Len(pp) - 1) ELSE pp

\* xy[2::2] and xy[3::2]
EvenFrom2(xy) == [k \in 1..((Len(xy) - 1) \div 2) |-> xy[2*k + 1]]
OddFrom3(xy)  == [k \in 1..((Len(xy) - 2) \div 2) |-> xy[2*k + 2]]

\* if len(x): p_segments += 1
SegmentsOfNoGuard(x) == 1
SegmentsOf(x) == IF Len(x) > 0 THEN 1 ELSE 0

\* if len(x): ... if closed: x.extend([x0]); y.extend([y0])
CloseExtendNever(x, closed, v0) == x
CloseExtend(x, closed, v0) ==
    IF Len(x) > 0 /\ closed THEN Append(x, v0) ELSE x

\* math.sqrt(dx * dx + dy * dy)
Dist(dx, dy) == ISqrt((dx * dx + dy * dy) * LengthUnit * LengthUnit)

\* The for loop over range(len(x)): the lengths of the straight pieces,
\* starting at (x0, y0).
RECURSIVE PieceLengths(_, _, _, _)
PieceLengths(x0, y0, x, y) ==
    IF x = <<>> THEN <<>>
    ELSE <<Dist(Head(x) - x0, Head(y) - y0)>>
         \o PieceLengths(Head(x), Head(y), Tail(x), Tail(y))

NoStats == [points |-> 0, segments |-> 0, length |-> 0, error |-> FALSE]

\* The body of the loop over the pieces, for one piece p, added to acc.
\* error: float() of a letter left in the piece (ValueError) or a
\* coordinate without its partner (IndexError).
SubpathStats(acc, p) ==
    LET pp     == StripCurveLine(p)
        closed == HasTrailingZ(pp)
        xy     == StripTrailingZ(pp)
    IN  IF acc.error THEN acc
        ELSE IF Len(xy) < 2 THEN acc
        ELSE IF \E k \in 1..Len(xy) : ~IsNum(xy[k])
             THEN [acc EXCEPT !.error = TRUE]
        ELSE LET x0 == xy[1].num
                 y0 == xy[2].num
                 xs == [k \in 1..Len(EvenFrom2(xy)) |-> EvenFrom2(xy)[k].num]
                 ys == [k \in 1..Len(OddFrom3(xy)) |-> OddFrom3(xy)[k].num]
                 x  == CloseExtend(xs, closed, x0)
                 y  == CloseExtend(ys, closed, y0)
             IN  IF Len(y) < Len(x)
                 THEN [acc EXCEPT !.error = TRUE]
                 ELSE [points   |-> acc.points + 1 + Len(x),
                       segments |-> acc.segments + SegmentsOf(xs),
                       length   |-> acc.length + SumSeq(PieceLengths(x0, y0, x, y)),
                       error    |-> FALSE]

RECURSIVE FoldPieces(_, _)
FoldPieces(acc, pieces) ==
    IF pieces = <<>> THEN acc
    ELSE FoldPieces(SubpathStats(acc, Head(pieces)), Tail(pieces))

svg_pathstats(path_d) == FoldPieces(NoStats, split(lower(path_d), "m"))



(***************************************************************************)
(* The threshold sweep and the bi-level bitmap.                            *)
(***************************************************************************)
MaxAttempts == 255    \* [1..255] Autotrace candidate runs

\* threshold = int(256. * (1 + i) / (num_attempts + 1))
ThresholdFromIndex(i, num_attempts) == (256 * i) \div (num_attempts + 1)
ThresholdRounded(i, num_attempts) ==
    (2 * 256 * (1 + i) + (num_attempts + 1)) \div (2 * (num_attempts + 1))
Threshold(i, num_attempts) == (256 * (1 + i)) \div (num_attempts + 1)

\* lut = [255 for n in range(threshold)] + [0 for n in range(threshold, 256)]
lutInverted(threshold) == [v \in 0..255 |-> IF v < threshold THEN 0 ELSE 255]
lut(threshold) == [v \in 0..255 |-> IF v < threshold THEN 255 ELSE 0]

\* im.point(lut, mode='1'): every pixel through the table.  An image is a
\* sequence of rows, a row a sequence of pixel values.
point(im, table) == [r \in 1..Len(im) |-> [c \in 1..Len(im[r]) |-> table[im[r][c]]]]

Pow2(k) == 2^k

\* One row of a mode '1' image as PIL's raw encoder packs it: eight pixels
\* a byte, the leftmost pixel in the most significant bit, a set bit for a
\* nonzero (white) pixel, the last byte padded with zero bits.
PackRow(row) ==
    [b \in 1..((Len(row) + 7) \div 8) |->
        SumSeq([k \in 1..8 |->
            LET c == 8 * (b - 1) + k
            IN IF c <= Len(row) /\ row[c] # 0 THEN Pow2(8 - k) ELSE 0])]

RECURSIVE Flatten(_)
Flatten(rows) == IF rows = <<>> THEN <<>> ELSE Head(rows) \o Flatten(Tail(rows))

\* bw.tobytes()
tobytes(bw) == Flatten([r \in 1..Len(bw) |-> PackRow(bw[r])])

ImWidth(im) == IF Len(im) = 0 THEN 0 ELSE Len(im[1])
ImHeight(im) == Len(im)

\* fp.write("P4\n%d %d\n" % bw.size); fp.write(bw.tobytes())
PbmFile(bw) == [magic |-> "P4", width |-> ImWidth(bw), height |-> ImHeight(bw),
                data |-> tobytes(bw)]

(***************************************************************************)
(* Vectorizer output.  The text autotrace writes to stdout is one of:      *)
(* nothing at all, text that is no XML, or an svg document holding the     *)
(* path descriptions of its path elements.                                 *)
(***************************************************************************)
SvgText(paths) == [kind |-> "svg", paths |-> paths]
NoOutput == [kind |-> "empty"]
Garbage  == [kind |-> "garbage"]
EmptySvg == SvgText(<<>>)                       \* '<svg/>'

\* inkex.etree.fromstring raises on text that is no XML.
Parses(text) == text.kind = "svg"

PathLine  == <<Cmd("M"), Num(0), Num(0), Cmd("L"), Num(10), Num(0)>>
PathShort == <<Cmd("M"), Num(0), Num(0), Cmd("L"), Num(3), Num(4)>>
PathLoop  == <<Cmd("M"), Num(0), Num(0), Cmd("L"), Num(10), Num(0),
               Cmd("L"), Num(10), Num(10), Cmd("z")>>
\* The centerline of a speck: one pixel long.
PathDot   == <<Cmd("M"), Num(0), Num(0), Cmd("L"), Num(1), Num(0)>>

VecOutputs == { NoOutput, Garbage, EmptySvg,
                SvgText(<<PathLine>>), SvgText(<<PathShort, PathLoop>>),
                SvgText(<<PathDot>>) }

\* for p in xml.findall('path'): the statistics summed over the paths.
RECURSIVE SumStats(_, _)
SumStats(acc, paths) ==
    IF paths = <<>> THEN acc
    ELSE LET pstat == svg_pathstats(Head(paths))
         IN SumStats([p_len |-> acc.p_len + pstat.length,
                      p_seg |-> acc.p_seg + pstat.segments,
                      p_pts |-> acc.p_pts + pstat.points], Tail(paths))

(***************************************************************************)
(* One attempt's candidate, from the text the vectorizer returned.         *)
(***************************************************************************)
\* if not len(cand['svg']): cand['svg'] = '<svg/>'
KeptSvg(out) == IF out.kind = "empty" THEN EmptySvg ELSE out

\* try: xml = fromstring(cand['svg']) except: xml = fromstring('<svg/>')
ParsedOrEmpty(text) == IF Parses(text) THEN text ELSE EmptySvg

MakeCandidate(threshold, bw, out) ==
    LET svg == KeptSvg(out)
        xml == ParsedOrEmpty(svg)
        st  == SumStats([p_len |-> 0, p_seg |-> 0, p_pts |-> 0], xml.paths)
    IN [threshold |-> threshold, img_width |-> ImWidth(bw), img_height |-> ImHeight(bw),
        svg |-> svg, length |-> st.p_len, segments |-> st.p_seg, points |-> st.p_pts]

(***************************************************************************)
(* Selection of the best candidate.                                        *)
(***************************************************************************)
\* calc_weight, times 4000:
\*   offset = (num_attempts/2. - idx)^2 * (img_width + img_height)
\*   w = length*5 - offset*.005 - points*.2 - segments*20
calc_weightMidIndex(cand, idx, num_attempts) ==
    (20000 \div LengthUnit) * cand.length
    - 5 * (num_attempts - 1 - 2 * idx) * (num_attempts - 1 - 2 * idx)
        * (cand.img_width + cand.img_height)
    - 800 * cand.points
    - 80000 * cand.segments
calc_weight(cand, idx, num_attempts) ==
    (20000 \div LengthUnit) * cand.length
    - 5 * (num_attempts - 2 * idx) * (num_attempts - 2 * idx)
        * (cand.img_width + cand.img_height)
    - 800 * cand.points
    - 80000 * cand.segments

\* if calc_weight(candidate[n], n) > calc_weight(candidate[best], best)
BeatsOrTies(wn, wbest) == wn >= wbest
Beats(wn, wbest) == wn > wbest

\* for n in candidate.keys(): ... best_weight_idx = n
RECURSIVE ScanBest(_, _, _, _)
ScanBest(candidate, num_attempts, best, n) ==
    IF n >= num_attempts THEN best
    ELSE IF Beats(calc_weight(candidate[n], n, num_attempts),
                  calc_weight(candidate[best], best, num_attempts))
         THEN ScanBest(candidate, num_attempts, n, n + 1)
         ELSE ScanBest(candidate, num_attempts, best, n + 1)

best_weight_idx(candidate, num_attempts) == ScanBest(candidate, num_attempts, 0, 0)

(***************************************************************************)
(* The host document: the objects a user can select.                       *)
(***************************************************************************)
NodeIds == {"imgA", "imgB", "imgBad", "rectIn", "rectOut", "path1"}

\* size: the pixel size of the image file; href: how the image is referenced.
Node(id) ==
    CASE id = "imgA"    -> [tag |-> "image", x |-> 0, y |-> 0, width |-> 10, height |-> 10,
                            href |-> "file", size |-> <<2, 2>>]
      [] id = "imgB"    -> [tag |-> "image", x |-> 10, y |-> 0, width |-> 20, height |-> 10,
                            href |-> "data", size |-> <<4, 2>>]
      [] id = "imgBad"  -> [tag |-> "image", x |-> 0, y |-> 0, width |-> 10, height |-> 10,
                            href |-> "other", size |-> <<2, 2>>]
      [] id = "rectIn"  -> [tag |-> "rect", x |-> 5, y |-> 0, width |-> 10, height |-> 10]
      [] id = "rectOut" -> [tag |-> "rect", x |-> 20, y |-> 20, width |-> 1, height |-> 1]
      [] id = "path1"   -> [tag |-> "path"]

(***************************************************************************)
(* Clip rectangle arithmetic, on exact rationals <<n, d>> with d > 0.      *)
(***************************************************************************)
Rat(n) == <<n, 1>>
RatMinus(r, k) == <<r[1] - k * r[2], r[2]>>      \* r - k
RatOver(r, k) == <<r[1], r[2] * k>>              \* r / k, k > 0

\* sorted((0, v, hi))[1]
Clamp(v, hi) == IF v < 0 THEN 0 ELSE IF v > hi THEN hi ELSE v

\* int(0.5 + a * size)
RoundScaled(a, size) == Trunc(a[2] + 2 * a[1] * size, 2 * a[2])
\* int(0.5 + a * size + b * size), a * size taken before it is rounded
RoundScaledSum(a, b, size) ==
    Trunc(a[2] * b[2] + 2 * a[1] * size * b[2] + 2 * b[1] * size * a[2],
          2 * a[2] * b[2])

\* box[0..3] of svg_centerline_trace, as <<left, upper, right, lower>>
ClipBox(clip, size) ==
    << Clamp(RoundScaled(clip.x, size[1]), size[1]),
       Clamp(RoundScaled(clip.y, size[2]), size[2]),
       Clamp(RoundScaledSum(clip.x, clip.w, size[1]), size[1]),
       Clamp(RoundScaledSum(clip.y, clip.h, size[2]), size[2]) >>

\* if box[0] == box[2] or box[1] == box[3]
NoOverlapNever(box) == FALSE
NoOverlap(box) == box[1] = box[3] \/ box[2] = box[4]

NoClip == [set |-> FALSE]

\* cliprect = {'x': float(node.get('x', 0)), ..., 'node': node}
ClipFromRect(id) ==
    [set |-> TRUE, x |-> Rat(Node(id).x), y |-> Rat(Node(id).y),
     w |-> Rat(Node(id).width), h |-> Rat(Node(id).height), node |-> id]

\* The loop over the selection that captures the clip rectangle: the last
\* rectangle selected wins.
CapturedClip(sel, wanted) ==
    LET rects == SelectSeq(sel, LAMBDA id : Node(id).tag = "rect")
    IN IF wanted /\ rects # <<>> THEN ClipFromRect(rects[Len(rects)]) ELSE NoClip

\* normalize cliprect into range 0..1 (the dict is updated in place)
NormalizedClip(clip, img) ==
    IF ~clip.set THEN clip
    ELSE [clip EXCEPT !.x = RatOver(RatMinus(@, img.x), img.width),
                      !.y = RatOver(RatMinus(@, img.y), img.height),
                      !.w = RatOver(@, img.width),
                      !.h = RatOver(@, img.height)]

(***************************************************************************)
(* The normalized gray image.  What the filters make of the pixels is not  *)
(* modelled: the image is white, or has dark strokes inside the one pixel  *)
(* white border that ImageOps.expand adds.                                 *)
(***************************************************************************)
Bordered(w, h, v) ==
    [r \in 1..(h + 2) |-> [c \in 1..(w + 2) |->
        IF r = 1 \/ r = h + 2 \/ c = 1 \/ c = w + 2 THEN 255 ELSE v]]

NormalizedImages(w, h) == { Bordered(w, h, 255), Bordered(w, h, 0) }

(***************************************************************************)
(* State.                                                                  *)
(***************************************************************************)
VARIABLES
    pc,          \* where the program is
    found,       \* outcome of the autotrace --version probe
    options,     \* the command line options
    selected,    \* self.svg.selected, in order
    repertoire,  \* the texts the installed vectorizer may return
    document,    \* the host document: objects present, paths added
    messages,    \* what was reported on stderr or with inkex.errormsg
    files,       \* temporary files existing on disk
    opened,      \* image files opened so far
    traced,      \* the tracing invocations of the vectorizer so far
    cliprect,    \* effect's cliprect
    pos,         \* index in selected of the object the loop is at
    cur,         \* effect's locals for that object
    tr,          \* the locals of svg_centerline_trace
    ret,         \* what svg_centerline_trace returned
    path_d,      \* a path description under construction
    subpaths,    \* the subpaths path_d was written from
    stats,       \* svg_pathstats(path_d), once computed
    th,          \* the threshold loop on its own
    bz           \* the binarization of one gray image on its own

runVars   == <<pc, found, options, selected, repertoire, document, messages, files,
               opened, traced, cliprect, pos, cur, tr, ret>>
statsVars == <<path_d, subpaths, stats>>
vars      == <<pc, found, options, selected, repertoire, document, messages, files,
               opened, traced, cliprect, pos, cur, tr, ret, path_d, subpaths, stats,
               th, bz>>

File(kind, p, i) == [kind |-> kind, pos |-> p, i |-> i]
NoCur   == [id |-> "none", filename |-> File("none", 0, 0)]
NoTrace == [active |-> FALSE]
NoRet   == [set |-> FALSE]
NoTh    == [num_attempts |-> 0, i |-> 0, thresholds |-> <<>>]
NoBz    == [num_attempts |-> 0, i |-> 0, im |-> <<>>, threshold |-> 0, pbm |-> <<>>]

Injective(f) == \A a, b \in DOMAIN f : f[a] = f[b] => a = b
Selections == { s \in UNION { [1..k -> NodeIds] : k \in 0..MaxSel } : Injective(s) }

Options == [cliprect : BOOLEAN, remove : BOOLEAN, candidates : 1..MaxCandidates]

IdleStats == path_d = <<>> /\ subpaths = <<>> /\ stats = [done |-> FALSE]

\* The extension before it is started; the other Inits start from it with
\* pc elsewhere.
IdleRun ==
    /\ found = "untested"
    /\ options = [cliprect |-> FALSE, remove |-> FALSE, candidates |-> 1]
    /\ selected = <<>>
    /\ repertoire = VecOutputs
    /\ document = [nodes |-> NodeIds, paths |-> <<>>]
    /\ messages = {}
    /\ files = {}
    /\ opened = {}
    /\ traced = {}
    /\ cliprect = NoClip
    /\ pos = 0
    /\ cur = NoCur
    /\ tr = NoTrace
    /\ ret = NoRet

Init ==
    /\ pc = "init"
    /\ found = "untested"
    /\ options \in Options
    /\ selected \in Selections
    /\ repertoire = VecOutputs
    /\ document = [nodes |-> NodeIds, paths |-> <<>>]
    /\ messages = {}
    /\ files = {}
    /\ opened = {}
    /\ traced = {}
    /\ cliprect = NoClip
    /\ pos = 0
    /\ cur = NoCur
    /\ tr = NoTrace
    /\ ret = NoRet
    /\ IdleStats
    /\ th = NoTh
    /\ bz = NoBz

(***************************************************************************)
(* TraceCenterline.__init__: the probe for autotrace.                      *)
(***************************************************************************)
\* if found == -1: ... sys.exit(1)
AfterProbeGoOn(ok) == "effect"
AfterProbe(ok) == IF ok THEN "effect" ELSE "exit1"

Probe ==
    /\ pc = "init"
    /\ \E ok \in BOOLEAN :
        /\ found' = (IF ok THEN "yes" ELSE "no")
        /\ pc' = AfterProbe(ok)
        /\ messages' = (IF ok THEN messages ELSE messages \cup {<<"install autotrace", 0>>})
    /\ UNCHANGED <<options, selected, repertoire, document, files, opened, traced,
                   cliprect, pos, cur, tr, ret, path_d, subpaths, stats, th, bz>>

(***************************************************************************)
(* TraceCenterline.effect, up to the loop over the selection.              *)
(***************************************************************************)
EffectStart ==
    /\ pc = "effect"
    /\ LET clip  == CapturedClip(selected, options.cliprect)
           paths == { <<"is a path", k>> : k \in { j \in 1..Len(selected) :
                          options.cliprect /\ Node(selected[j]).tag = "path" } }
       IN /\ cliprect' = clip
          /\ IF Len(selected) = 0
             THEN /\ messages' = messages \cup paths \cup {<<"select an image", 0>>}
                  /\ pc' = "exit0"
                  /\ pos' = pos
             ELSE IF clip.set /\ Len(selected) < 2
             THEN /\ messages' = messages \cup paths \cup {<<"only a cliprect", 0>>}
                  /\ pc' = "exit0"
                  /\ pos' = pos
             ELSE /\ messages' = messages \cup paths
                  /\ pc' = "loop"
                  /\ pos' = 1
    /\ UNCHANGED <<found, options, selected, repertoire, document, files, opened, traced,
                   cur, tr, ret, path_d, subpaths, stats, th, bz>>

(***************************************************************************)
(* One turn of effect's loop over the selection, up to the call of         *)
(* svg_centerline_trace.                                                   *)
(***************************************************************************)
LoopNode ==
    /\ pc = "loop"
    /\ IF pos > Len(selected)
       THEN /\ pc' = "exit0"
            /\ UNCHANGED <<messages, files, cliprect, pos, cur>>
       ELSE LET id   == selected[pos]
                node == Node(id)
            IN IF options.cliprect /\ node.tag = "rect"
               THEN /\ pos' = pos + 1
                    /\ UNCHANGED <<pc, messages, files, cliprect, cur>>
               ELSE IF node.tag # "image"
               THEN /\ messages' = messages \cup {<<"not an image", pos>>}
                    /\ pc' = "exit0"
                    /\ UNCHANGED <<files, cliprect, pos, cur>>
               ELSE /\ cliprect' = NormalizedClip(cliprect, node)
                    /\ pos' = pos
                    /\ CASE node.href = "file" ->
                              /\ cur' = [id |-> id, filename |-> File("file", pos, 0)]
                              /\ pc' = "trace"
                              /\ UNCHANGED <<messages, files>>
                         [] node.href = "data" ->
                              /\ cur' = [id |-> id, filename |-> File("img", pos, 0)]
                              /\ files' = files \cup {File("img", pos, 0)}
                              /\ pc' = "trace"
                              /\ UNCHANGED messages
                         [] OTHER ->
                              /\ messages' = messages \cup {<<"cannot parse href", pos>>}
                              /\ pc' = "exit1"
                              /\ UNCHANGED <<files, cur>>
    /\ UNCHANGED <<found, options, selected, repertoire, document, opened, traced,
                   tr, ret, path_d, subpaths, stats, th, bz>>

(***************************************************************************)
(* svg_centerline_trace.                                                   *)
(***************************************************************************)
\* return ('<svg/>', 1, orig_im_size)
Sentinel(size) == [set |-> TRUE, svg |-> EmptySvg, im_size |-> size]

\* Image.open, the crop to the clip rectangle, and the filters.
TraceOpen ==
    /\ pc = "trace"
    /\ opened' = opened \cup {cur.filename}
    /\ LET size == Node(cur.id).size
           box  == IF cliprect.set THEN ClipBox(cliprect, size) ELSE <<0, 0, 0, 0>>
           w    == IF cliprect.set THEN box[3] - box[1] ELSE size[1]
           h    == IF cliprect.set THEN box[4] - box[2] ELSE size[2]
       IN IF cliprect.set /\ NoOverlap(box)
          THEN /\ messages' = messages \cup {<<"no overlap", pos>>}
               /\ ret' = Sentinel(size)
               /\ tr' = NoTrace
               /\ pc' = "place"
          ELSE /\ \E im \in NormalizedImages(w, h) :
                    tr' = [active |-> TRUE, orig_im_size |-> size, im |-> im, i |-> 0,
                           threshold |-> 0, bw |-> <<>>, pbm |-> <<>>,
                           fp |-> File("none", 0, 0), candidate |-> <<>>, best |-> 0]
               /\ ret' = NoRet
               /\ pc' = "sweep"
               /\ UNCHANGED messages
    /\ UNCHANGED <<found, options, selected, repertoire, document, files, traced,
                   cliprect, pos, cur, path_d, subpaths, stats, th, bz>>

\* The loop body up to fp.close(): threshold, lookup table, bi-level image,
\* temporary pbm file.
AttemptWrite ==
    /\ pc = "sweep"
    /\ tr.i < options.candidates
    /\ LET threshold == Threshold(tr.i, options.candidates)
           bw        == point(tr.im, lut(threshold))
           fp        == File("pbm", pos, tr.i)
       IN /\ tr' = [tr EXCEPT !.threshold = threshold, !.bw = bw,
                              !.pbm = PbmFile(bw), !.fp = fp]
          /\ files' = files \cup {fp}
    /\ pc' = "invoke"
    /\ UNCHANGED <<found, options, selected, repertoire, document, messages, opened,
                   traced, cliprect, pos, cur, ret, path_d, subpaths, stats, th, bz>>

\* if not len(cand['svg']): ... else: os.unlink(fp.name)
AfterInvokeFiles(fs, fp, out) == IF out.kind = "empty" THEN fs ELSE fs \ {fp}

\* The rest of the loop body: the vectorizer runs on the pbm file, its
\* output is kept, parsed and measured, and the candidate is recorded.
\* returned: what the vectorizer wrote (kept for reference only).
AttemptInvoke ==
    /\ pc = "invoke"
    /\ \E out \in repertoire :
        /\ traced' = traced \cup {File("pbm", pos, tr.i)}
        /\ files' = AfterInvokeFiles(files, tr.fp, out)
        /\ messages' = messages
              \cup (IF out.kind = "empty" THEN {<<"returned nothing", pos>>} ELSE {})
              \cup (IF ~Parses(KeptSvg(out)) THEN {<<"no proper xml", pos>>} ELSE {})
        /\ tr' = [tr EXCEPT
                    !.candidate = [n \in 0..tr.i |->
                        IF n = tr.i
                        THEN [returned |-> out] @@ MakeCandidate(tr.threshold, tr.bw, out)
                        ELSE tr.candidate[n]],
                    !.i = tr.i + 1]
    /\ pc' = "sweep"
    /\ UNCHANGED <<found, options, selected, repertoire, document, opened,
                   cliprect, pos, cur, ret, path_d, subpaths, stats, th, bz>>

\* After the loop: the scan for the best weight and the return.
Select ==
    /\ pc = "sweep"
    /\ tr.i >= options.candidates
    /\ LET best == best_weight_idx(tr.candidate, options.candidates)
       IN /\ tr' = [tr EXCEPT !.best = best]
          /\ ret' = [set |-> TRUE, svg |-> tr.candidate[best].svg,
                     im_size |-> tr.orig_im_size]
    /\ pc' = "place"
    /\ UNCHANGED <<found, options, selected, repertoire, document, messages, files,
                   opened, traced, cliprect, pos, cur, path_d, subpaths, stats, th, bz>>

(***************************************************************************)
(* The rest of the turn of effect's loop: the path is added to the         *)
(* document.                                                               *)
(***************************************************************************)
\* xml.find('path').attrib['d']
FirstPath(xml) == xml.paths[1]

Place ==
    /\ pc = "place"
    /\ IF ~Parses(ret.svg)
       THEN \* inkex.etree.fromstring(path_svg) raises outside the try
            /\ pc' = "crash"
            /\ messages' = messages \cup {<<"XMLSyntaxError", pos>>}
            /\ UNCHANGED <<document, files, pos>>
       ELSE IF ret.svg.paths = <<>>
       THEN /\ pc' = "exit1"
            /\ messages' = messages \cup {<<"could not trace", pos>>}
            /\ UNCHANGED <<document, files, pos>>
       ELSE LET node   == Node(cur.id)
                x_off  == IF cliprect.set /\ Node(cliprect.node).x > node.x
                          THEN Node(cliprect.node).x ELSE node.x
                y_off  == IF cliprect.set /\ Node(cliprect.node).y > node.y
                          THEN Node(cliprect.node).y ELSE node.y
                attr   == [d |-> FirstPath(ret.svg),
                           translate |-> <<x_off, y_off>>,
                           scale |-> << <<node.width, ret.im_size[1]>>,
                                        <<node.height, ret.im_size[2]>> >>,
                           of |-> pos]
                gone   == IF options.remove
                          THEN {cur.id} \cup (IF cliprect.set THEN {cliprect.node} ELSE {})
                          ELSE {}
            IN /\ files' = (IF node.href = "data" THEN files \ {cur.filename} ELSE files)
               /\ document' = [nodes |-> document.nodes \ gone,
                               paths |-> Append(document.paths, attr)]
               /\ IF options.remove /\ cliprect.set /\ cliprect.node \notin document.nodes
                  THEN \* cliprect['node'].getparent() is None the second time
                       /\ pc' = "crash"
                       /\ messages' = messages \cup {<<"AttributeError", pos>>}
                       /\ pos' = pos
                  ELSE /\ pc' = "loop"
                       /\ pos' = pos + 1
                       /\ UNCHANGED messages
    /\ tr' = NoTrace       \* the locals of the call are gone
    /\ UNCHANGED <<found, options, selected, repertoire, opened, traced,
                   cliprect, cur, ret, path_d, subpaths, stats, th, bz>>

\* The extension started on one image, no clip rectangle, with more
\* candidates.
InitSweep ==
    /\ pc = "init"
    /\ found = "untested"
    /\ options \in [cliprect : {FALSE}, remove : BOOLEAN, candidates : 1..MaxSweep]
    /\ selected \in { <<"imgA">>, <<"imgB">> }
    /\ repertoire = VecOutputs
    /\ document = [nodes |-> NodeIds, paths |-> <<>>]
    /\ messages = {}
    /\ files = {}
    /\ opened = {}
    /\ traced = {}
    /\ cliprect = NoClip
    /\ pos = 0
    /\ cur = NoCur
    /\ tr = NoTrace
    /\ ret = NoRet
    /\ IdleStats
    /\ th = NoTh
    /\ bz = NoBz

Next ==
    \/ Probe
    \/ EffectStart
    \/ LoopNode
    \/ TraceOpen
    \/ AttemptWrite
    \/ AttemptInvoke
    \/ Select
    \/ Place

Spec == Init /\ [][Next]_vars

SpecSweep == InitSweep /\ [][Next]_vars

(***************************************************************************)
(* svg_pathstats on its own.  A path description is written command by     *)
(* command, as the vectorizer writes it (M x y, L x y, C x1 y1 x2 y2 x y,  *)
(* Z, a new subpath after Z), and then measured.  subpaths remembers what  *)
(* was written: the coordinate pairs of each subpath and whether it was    *)
(* closed.                                                                 *)
(***************************************************************************)
Points == { <<0, 0>>, <<10, 0>>, <<10, 10>> }

NumCmds(d) == Len(SelectSeq(d, IsCmd))
Last(s) == s[Len(s)]
Open == subpaths # <<>> /\ ~Last(subpaths).closed
AddPoints(ps) ==
    [subpaths EXCEPT ![Len(subpaths)].pts = @ \o ps]

InitStats ==
    /\ pc = "build"
    /\ IdleRun
    /\ IdleStats
    /\ th = NoTh
    /\ bz = NoBz

MoveTo ==
    /\ pc = "build" /\ NumCmds(path_d) < MaxCmds
    /\ \E p \in Points :
        /\ path_d' = path_d \o <<Cmd("M"), Num(p[1]), Num(p[2])>>
        /\ subpaths' = Append(subpaths, [pts |-> <<p>>, closed |-> FALSE])
    /\ UNCHANGED <<runVars, stats, th, bz>>

LineTo ==
    /\ pc = "build" /\ NumCmds(path_d) < MaxCmds /\ Open
    /\ \E p \in Points :
        /\ path_d' = path_d \o <<Cmd("L"), Num(p[1]), Num(p[2])>>
        /\ subpaths' = AddPoints(<<p>>)
    /\ UNCHANGED <<runVars, stats, th, bz>>

\* A curve to p whose first handle is the point before it and whose second
\* handle is p.
CurveTo ==
    /\ pc = "build" /\ NumCmds(path_d) < MaxCmds /\ Open
    /\ \E p \in Points :
        LET q == Last(Last(subpaths).pts)
        IN /\ path_d' = path_d \o <<Cmd("C"), Num(q[1]), Num(q[2]),
                                    Num(p[1]), Num(p[2]), Num(p[1]), Num(p[2])>>
           /\ subpaths' = AddPoints(<<q, p, p>>)
    /\ UNCHANGED <<runVars, stats, th, bz>>

ClosePath ==
    /\ pc = "build" /\ NumCmds(path_d) < MaxCmds /\ Open
    /\ path_d' = Append(path_d, Cmd("Z"))
    /\ subpaths' = [subpaths EXCEPT ![Len(subpaths)].closed = TRUE]
    /\ UNCHANGED <<runVars, stats, th, bz>>

ComputeStats ==
    /\ pc = "build"
    /\ stats' = [done |-> TRUE] @@ svg_pathstats(path_d)
    /\ pc' = "stats"
    /\ UNCHANGED <<found, options, selected, repertoire, document, messages, files,
                   opened, traced, cliprect, pos, cur, tr, ret, path_d, subpaths, th, bz>>

NextStats == MoveTo \/ LineTo \/ CurveTo \/ ClosePath \/ ComputeStats

SpecStats == InitStats /\ [][NextStats]_vars

(***************************************************************************)
(* The threshold loop on its own, for every number of attempts the option  *)
(* allows.                                                                 *)
(***************************************************************************)
InitThreshold ==
    /\ pc = "threshold"
    /\ IdleRun
    /\ IdleStats
    /\ th \in [num_attempts : 1..MaxAttempts, i : {0}, thresholds : {<<>>}]
    /\ bz = NoBz

ThresholdStep ==
    /\ pc = "threshold"
    /\ th.i < th.num_attempts
    /\ th' = [th EXCEPT !.thresholds = Append(@, Threshold(th.i, th.num_attempts)),
                        !.i = @ + 1]
    /\ UNCHANGED <<runVars, statsVars, bz>>

SpecThreshold == InitThreshold /\ [][ThresholdStep]_vars

(***************************************************************************)
(* The binarization of one gray image on its own: the loop body from the   *)
(* threshold to the bytes of the pbm file.                                 *)
(***************************************************************************)
GrayLevels == {0, 64, 85, 127, 128, 255}

\* A row of ten pixels: it takes two bytes.
WideImage == << <<0, 255, 0, 255, 128, 127, 64, 85, 0, 255>> >>

GrayImages ==
    UNION { [1..1 -> [1..w -> GrayLevels]] : w \in 1..MaxCols }
    \cup [1..2 -> [1..2 -> {0, 128, 255}]]
    \cup { WideImage }

InitBinarize ==
    /\ pc = "binarize"
    /\ IdleRun
    /\ IdleStats
    /\ th = NoTh
    /\ bz \in [num_attempts : 1..MaxCandidates, i : {0}, im : GrayImages,
               threshold : {0}, pbm : {<<>>}]

BinarizeStep ==
    /\ pc = "binarize"
    /\ bz.i < bz.num_attempts
    /\ LET threshold == Threshold(bz.i, bz.num_attempts)
           bw        == point(bz.im, lut(threshold))
       IN bz' = [bz EXCEPT !.threshold = threshold, !.pbm = PbmFile(bw), !.i = @ + 1]
    /\ UNCHANGED <<runVars, statsVars, th>>

SpecBinarize == InitBinarize /\ [][BinarizeStep]_vars

(***************************************************************************)
(* Properties.                                                             *)
(***************************************************************************)
WeightAt(n) == calc_weight(tr.candidate[n], n, options.candidates)
Selected == pc = "place" /\ tr.active

\* C1: select returns the smallest index whose weight equals the maximum
\* weight over the candidates 0..attempts-1; of two candidates of equal,
\* maximal weight the lower index is returned.
C1_SelectsFirstMaximum ==
    Selected =>
        /\ DOMAIN tr.candidate = 0..(options.candidates - 1)
        /\ tr.best \in DOMAIN tr.candidate
        /\ \A n \in DOMAIN tr.candidate : WeightAt(n) <= WeightAt(tr.best)
        /\ \A n \in DOMAIN tr.candidate : n < tr.best => WeightAt(n) < WeightAt(tr.best)

\* A sweep in which a later candidate ties with the winner.
C1_Witness ==
    /\ Selected
    /\ \E n \in DOMAIN tr.candidate : n > tr.best /\ WeightAt(n) = WeightAt(tr.best)

(***************************************************************************)
(* Path statistics, against what was written into the description.         *)
(***************************************************************************)
Measured == pc = "stats" /\ stats.done
NumPoints(sp) == Len(sp.pts)
SingleOpenSubpath == Len(subpaths) = 1 /\ ~subpaths[1].closed

\* C2, as claimed: a single subpath of k points without close marker has
\* segments = 1 and points = k when k >= 2, and segments = 0 and points = 0
\* when k < 2.
C2_Claimed ==
    (Measured /\ Len(subpaths) <= 1 /\ (subpaths # <<>> => ~subpaths[1].closed)) =>
        LET k == IF subpaths = <<>> THEN 0 ELSE NumPoints(subpaths[1])
        IN /\ k >= 2 => (stats.segments = 1 /\ stats.points = k)
           /\ k < 2 => (stats.segments = 0 /\ stats.points = 0)

\* C2, amended: a single subpath of k points without close marker has
\* segments = 1 and points = k when k >= 2; a lone move-to with one
\* coordinate pair (k = 1) has segments = 0 and points = 1; the empty
\* description (k = 0) has segments = 0 and points = 0.
C2_SingleSubpathCounts ==
    (Measured /\ Len(subpaths) <= 1 /\ (subpaths # <<>> => ~subpaths[1].closed)) =>
        LET k == IF subpaths = <<>> THEN 0 ELSE NumPoints(subpaths[1])
        IN /\ ~stats.error
           /\ k >= 2 => (stats.segments = 1 /\ stats.points = k)
           /\ k = 1 => (stats.segments = 0 /\ stats.points = 1)
           /\ k = 0 => (stats.segments = 0 /\ stats.points = 0)

\* A lone move-to, measured.
C2_Witness ==
    /\ Measured /\ SingleOpenSubpath /\ NumPoints(subpaths[1]) = 1
    /\ stats.points = 1 /\ stats.segments = 0

\* The length of the polyline through ps.
RECURSIVE Polyline(_)
Polyline(ps) ==
    IF Len(ps) < 2 THEN 0
    ELSE ISqrt(((ps[2][1] - ps[1][1]) * (ps[2][1] - ps[1][1])
                + (ps[2][2] - ps[1][2]) * (ps[2][2] - ps[1][2]))
               * LengthUnit * LengthUnit)
         + Polyline(Tail(ps))

RECURSIVE SumOver(_, _)
SumOver(F(_), s) == IF s = <<>> THEN 0 ELSE F(Head(s)) + SumOver(F, Tail(s))

\* The points of a subpath when every close marker adds the anchor.
ClosedAlways(sp) == IF sp.closed THEN Append(sp.pts, sp.pts[1]) ELSE sp.pts
\* The points of a subpath when a close marker adds the anchor only to a
\* subpath that has a point after its anchor.
ClosedIfLine(sp) ==
    IF sp.closed /\ Len(sp.pts) >= 2 THEN Append(sp.pts, sp.pts[1]) ELSE sp.pts

PointsAlways(sp) == Len(ClosedAlways(sp))
SegmentsAlways(sp) == IF Len(ClosedAlways(sp)) > 1 THEN 1 ELSE 0
LengthAlways(sp) == Polyline(ClosedAlways(sp))
PointsIfLine(sp) == Len(ClosedIfLine(sp))
SegmentsIfLine(sp) == IF Len(ClosedIfLine(sp)) > 1 THEN 1 ELSE 0
LengthIfLine(sp) == Polyline(ClosedIfLine(sp))

ClosedExample ==
    path_d = <<Cmd("M"), Num(0), Num(0), Cmd("L"), Num(10), Num(0),
               Cmd("L"), Num(10), Num(10), Cmd("Z")>>

\* C3, as claimed: every closed subpath, one that is only its anchor
\* included, gets the anchor as an implicit final point before counting:
\* points = explicit points + 1, the length includes the way back to the
\* anchor, and a segment is counted when the subpath then has more than one
\* point.
C3_Claimed ==
    Measured =>
        /\ stats.points = SumOver(PointsAlways, subpaths)
        /\ stats.segments = SumOver(SegmentsAlways, subpaths)
        /\ stats.length = SumOver(LengthAlways, subpaths)

\* C3, amended: a closed subpath with at least one point after its anchor
\* gets the anchor as an implicit final point (points = explicit points + 1,
\* the length includes the way back to the anchor, one segment); a closed
\* subpath that is only its anchor gets no implicit point (points = 1,
\* segments = 0).  M0 0 L10 0 L10 10 Z gives points = 4, segments = 1,
\* length = 10 + 10 + sqrt(200).
C3_ClosedSubpathCounts ==
    Measured =>
        /\ ~stats.error
        /\ stats.points = SumOver(PointsIfLine, subpaths)
        /\ stats.segments = SumOver(SegmentsIfLine, subpaths)
        /\ stats.length = SumOver(LengthIfLine, subpaths)
        /\ ClosedExample =>
             /\ stats.points = 4 /\ stats.segments = 1
             /\ stats.length = 20 * LengthUnit + ISqrt(200 * LengthUnit * LengthUnit)

\* The closed example of the claim, measured.
C3_Witness ==
    /\ Measured /\ ClosedExample
    /\ Len(subpaths) = 1 /\ subpaths[1].closed /\ stats.points = 4

(***************************************************************************)
(* Thresholds.                                                             *)
(***************************************************************************)
\* a / b rounded to the nearest integer, b > 0 (no quotient here lies
\* halfway between two integers).
RoundDiv(a, b) == (2 * a + b) \div (2 * b)

\* C4, as claimed: the threshold of attempt i is
\* round(256 * (i+1) / (attempts+1)), for attempts in 1..255.
C4_Claimed ==
    \A k \in 1..Len(th.thresholds) :
        th.thresholds[k] = RoundDiv(256 * k, th.num_attempts + 1)

\* C4, amended: the threshold of attempt i is 256 * (i+1) / (attempts+1)
\* rounded down: the integer t with
\* t * (attempts+1) <= 256 * (i+1) < (t+1) * (attempts+1).
C4_ThresholdRoundsDown ==
    \A k \in 1..Len(th.thresholds) :
        LET t == th.thresholds[k]
        IN /\ t * (th.num_attempts + 1) <= 256 * k
           /\ 256 * k < (t + 1) * (th.num_attempts + 1)

\* Two attempts: 85 and 170 (256 * 2 / 3 is 170.67).
C4_Witness ==
    th.num_attempts = 2 /\ th.i = 2 /\ th.thresholds = <<85, 170>>

\* C5: for every number of attempts in 1..255 the thresholds of attempts
\* 0..attempts-1 are strictly increasing and lie in 1..255.
C5_ThresholdsIncreaseInside ==
    \A k \in 1..Len(th.thresholds) :
        /\ th.thresholds[k] >= 1
        /\ th.thresholds[k] <= 255
        /\ k > 1 => th.thresholds[k] > th.thresholds[k - 1]

\* The default sweep of fifteen attempts, finished: 16, 32, ..., 240.
C5_Witness ==
    /\ th.num_attempts = 15 /\ th.i = 15
    /\ th.thresholds[1] = 16 /\ th.thresholds[15] = 240

(***************************************************************************)
(* The pbm file.                                                           *)
(***************************************************************************)
Written == pc = "binarize" /\ bz.i > 0
Pixels == { <<r, c>> : r \in 1..ImHeight(bz.im), c \in 1..ImWidth(bz.im) }
Gray(px) == bz.im[px[1]][px[2]]

\* How a reader of the P4 format sees pixel (r, c): the rows are packed
\* eight pixels a byte, most significant bit first, each row starting a new
\* byte; 1 is black.
PbmBit(f, r, c) ==
    LET rowbytes == (f.width + 7) \div 8
        byte     == f.data[(r - 1) * rowbytes + ((c - 1) \div 8) + 1]
    IN (byte \div Pow2(7 - ((c - 1) % 8))) % 2

\* C6, as claimed: in the pbm file a pixel whose gray value is below the
\* threshold is white (bit 0) and a pixel whose value is at or above the
\* threshold is black (bit 1).
C6_Claimed ==
    Written =>
        \A px \in Pixels :
            /\ Gray(px) < bz.threshold => PbmBit(bz.pbm, px[1], px[2]) = 0
            /\ Gray(px) >= bz.threshold => PbmBit(bz.pbm, px[1], px[2]) = 1

\* C6, amended: the pbm file has the size of the image, and in it a pixel
\* whose gray value is below the threshold is black (bit 1) and a pixel
\* whose value is at or above the threshold is white (bit 0).
C6_DarkPixelsAreBlack ==
    Written =>
        /\ bz.pbm.magic = "P4"
        /\ bz.pbm.width = ImWidth(bz.im) /\ bz.pbm.height = ImHeight(bz.im)
        /\ Len(bz.pbm.data) = ImHeight(bz.im) * ((ImWidth(bz.im) + 7) \div 8)
        /\ \A px \in Pixels :
            /\ Gray(px) < bz.threshold => PbmBit(bz.pbm, px[1], px[2]) = 1
            /\ Gray(px) >= bz.threshold => PbmBit(bz.pbm, px[1], px[2]) = 0

\* The ten pixel row at threshold 128: pixels on both sides of the
\* threshold, one of them equal to it, in two bytes.
C6_Witness ==
    /\ Written /\ bz.im = WideImage /\ bz.threshold = 128
    /\ bz.pbm.data = <<167, 128>>

(***************************************************************************)
(* Failures.                                                               *)
(***************************************************************************)
Failed(out) == out.kind = "empty" \/ ~Parses(out)

\* C7, as claimed: an attempt whose vectorizer output is empty or cannot be
\* parsed records a candidate with the empty-path placeholder and length =
\* segments = points = 0, the sweep goes on, and at its end the candidate
\* map holds one candidate for each index 0..attempts-1.
C7_Claimed ==
    tr.active =>
        /\ \A n \in DOMAIN tr.candidate :
              Failed(tr.candidate[n].returned) =>
                  /\ tr.candidate[n].svg = EmptySvg
                  /\ tr.candidate[n].length = 0
                  /\ tr.candidate[n].segments = 0
                  /\ tr.candidate[n].points = 0
        /\ DOMAIN tr.candidate = 0..(tr.i - 1)
        /\ pc = "place" => tr.i = options.candidates

ZeroArea(clip, size) ==
    LET box == ClipBox(clip, size)
    IN box[1] = box[3] \/ box[2] = box[4]
OfThisObject(fs) == { f \in fs : f.kind = "pbm" /\ f.pos = pos }

\* C8: when the clip rectangle, clamped to the image, has zero width or
\* zero height, svg_centerline_trace returns the empty-result sentinel with
\* the original image size, without raising and without a threshold
\* attempt: no pbm file is written and the vectorizer is not invoked.
C8_ClipMismatchReturnsSentinel ==
    (pc \in {"sweep", "invoke", "place"} /\ cliprect.set
        /\ ZeroArea(cliprect, Node(cur.id).size)) =>
            /\ pc = "place"
            /\ ret = Sentinel(Node(cur.id).size)
            /\ <<"no overlap", pos>> \in messages
            /\ OfThisObject(files) = {}
            /\ OfThisObject(traced) = {}

\* The rectangle x = 2.0, y = 2.0, w = 0.1, h = 0.1 on image imgA.
C8_Witness ==
    /\ pc = "place" /\ cur.id = "imgA" /\ cliprect.set
    /\ cliprect.x = <<20, 10>> /\ cliprect.y = <<20, 10>>
    /\ cliprect.w = <<1, 10>> /\ cliprect.h = <<1, 10>>
    /\ ret = Sentinel(<<2, 2>>)

NoGeometry(text) == ~Parses(text) \/ text.paths = <<>>
PathsOfThisObject == { k \in 1..Len(document.paths) : document.paths[k].of = pos }

\* C9, as claimed: when the winning candidate holds no path geometry, a
\* 'could not trace' error is reported and no path is added to the
\* document for that image.
C9_Claimed ==
    (ret.set /\ NoGeometry(ret.svg) /\ pc # "place") =>
        /\ <<"could not trace", pos>> \in messages
        /\ PathsOfThisObject = {}

\* C10: after a failed probe for autotrace the process has aborted with a
\* diagnostic: no image is opened, no temporary file is written and the
\* vectorizer is not invoked for tracing.
C10_FailedProbeStopsEverything ==
    found = "no" =>
        /\ pc = "exit1"
        /\ <<"install autotrace", 0>> \in messages
        /\ opened = {} /\ files = {} /\ traced = {}
        /\ document.paths = <<>>

\* The probe has failed although an image is selected.
C10_Witness ==
    /\ found = "no" /\ pc = "exit1"
    /\ \E k \in 1..Len(selected) : Node(selected[k]).tag = "image"


(***************************************************************************)
(* Weights of failed attempts, and the prior on the index.                 *)
(***************************************************************************)
HasGeometry(out) == Parses(out) /\ out.paths # <<>>
Returned(n) == tr.candidate[n].returned

\* C11, as claimed: within one sweep the weight of a candidate whose
\* vectorizer output was empty or malformed is never strictly greater than
\* the weight of a candidate whose output parsed and held path geometry, and
\* a failed attempt is never the winner while a successful one exists.
C11_Claimed ==
    tr.active =>
        /\ \A n, m \in DOMAIN tr.candidate :
              (Failed(Returned(n)) /\ HasGeometry(Returned(m)))
                  => WeightAt(n) <= WeightAt(m)
        /\ (pc = "place" /\ \E m \in DOMAIN tr.candidate : HasGeometry(Returned(m)))
              => ~Failed(Returned(tr.best))

Abs(v) == IF v < 0 THEN -v ELSE v

SameMeasures(a, b) ==
    /\ a.length = b.length /\ a.points = b.points /\ a.segments = b.segments
    /\ a.img_width = b.img_width /\ a.img_height = b.img_height

\* The distance of a candidate's threshold from 128.
ThresholdDistance(n) == Abs(tr.candidate[n].threshold - 128)
\* Twice the distance of index n from attempts/2.
IndexDistance(n) == Abs(options.candidates - 2 * n)

\* C12, as claimed: of two candidates of one sweep with identical length,
\* points, segments and image dimensions the one whose threshold is farther
\* from 128 has the strictly lower weight, and candidates whose thresholds
\* are equally far from 128 (indices i and attempts-1-i) have equal weight.
C12_Claimed ==
    tr.active =>
        \A n, m \in DOMAIN tr.candidate :
            SameMeasures(tr.candidate[n], tr.candidate[m]) =>
                /\ ThresholdDistance(n) > ThresholdDistance(m) => WeightAt(n) < WeightAt(m)
                /\ ThresholdDistance(n) = ThresholdDistance(m) => WeightAt(n) = WeightAt(m)
                /\ m = options.candidates - 1 - n => WeightAt(n) = WeightAt(m)

\* C12, amended: of two candidates of one sweep with identical length,
\* points, segments and image dimensions the one whose index is farther from
\* attempts/2 has the strictly lower weight, and candidates whose indices
\* are equally far from attempts/2 (indices i and attempts-i) have equal
\* weight.
C12_IndexPrior ==
    tr.active =>
        \A n, m \in DOMAIN tr.candidate :
            SameMeasures(tr.candidate[n], tr.candidate[m]) =>
                /\ IndexDistance(n) > IndexDistance(m) => WeightAt(n) < WeightAt(m)
                /\ IndexDistance(n) = IndexDistance(m) => WeightAt(n) = WeightAt(m)
                /\ m = options.candidates - n => WeightAt(n) = WeightAt(m)

\* Three attempts that all returned the same path: the first, at threshold
\* 64, weighs less than the third, at threshold 192, which weighs as much as
\* the second, at threshold 128.
C12_Witness ==
    /\ Selected /\ options.candidates = 3
    /\ \A n \in 0..2 : Returned(n) = SvgText(<<PathLine>>)
    /\ ThresholdDistance(0) = ThresholdDistance(2)
    /\ WeightAt(0) < WeightAt(2) /\ WeightAt(1) = WeightAt(2)


(***************************************************************************)
(* Temporary files, the clip rectangle of later images, and the path that  *)
(* is placed.                                                              *)
(***************************************************************************)
Pbm(n) == File("pbm", pos, n)

\* C13, as claimed: the temporary bitmap of an attempt exists before the
\* vectorizer is invoked on it, and once the attempt has finished it has
\* been deleted if and only if the invocation succeeded: after no output or
\* unparsable output the bitmap is still present.
C13_Claimed ==
    tr.active =>
        /\ pc = "invoke" => (Pbm(tr.i) \in files /\ Pbm(tr.i) \notin traced)
        /\ \A n \in DOMAIN tr.candidate :
              /\ Pbm(n) \in traced
              /\ Pbm(n) \notin files <=> ~Failed(Returned(n))

RatEq(a, b) == a[1] * b[2] = b[1] * a[2]

\* C14, as claimed: the clip rectangle passed to the trace of an image is
\* ((rect.x - img.x)/img.w, (rect.y - img.y)/img.h, rect.w/img.w,
\* rect.h/img.h), from the rectangle's document geometry and that image
\* alone, whatever images were processed before it.
C14_Claimed ==
    (pc \in {"trace", "sweep", "invoke", "place"} /\ cliprect.set) =>
        LET rect == Node(cliprect.node)
            img  == Node(cur.id)
        IN /\ RatEq(cliprect.x, <<rect.x - img.x, img.width>>)
           /\ RatEq(cliprect.y, <<rect.y - img.y, img.height>>)
           /\ RatEq(cliprect.w, <<rect.width, img.width>>)
           /\ RatEq(cliprect.h, <<rect.height, img.height>>)

\* The turn of the loop for object pos - 1 has just added its path.
JustPlaced ==
    /\ pc = "loop" /\ ret.set /\ document.paths # <<>>
    /\ document.paths[Len(document.paths)].of = pos - 1

IsPieceOf(p, d) ==
    \E k \in 0..(Len(d) - Len(p)) : SubSeq(d, k + 1, k + Len(p)) = p

\* C15, as claimed: the path description added to the document for the
\* winning candidate holds the geometry of every path element of the
\* winner's vector output, the elements whose statistics were summed.
C15_Claimed ==
    JustPlaced =>
        \A k \in 1..Len(ret.svg.paths) :
            IsPieceOf(ret.svg.paths[k], document.paths[Len(document.paths)].d)

\* C16, as claimed: when the processing of an image has ended (its path
\* placed, the clip mismatch reported, or 'could not trace' reported) no
\* temporary file of a decoded embedded image is left.
C16_Claimed ==
    pc \in {"loop", "exit0", "exit1"} => { f \in files : f.kind = "img" } = {}

=============================================================================
